---- MODULE Spec2Model ----
(***************************************************************************)
(* Model of the engine-sidecar bridge: the Ethereum JSON-RPC handler       *)
(* eth_sendRawTransaction, the raw transaction decoder and signer          *)
(* recovery it relies on, the address codec, the Aptos transaction         *)
(* builder, the engine adapter in front of an Aptos REST node, and the     *)
(* other methods of the surface (eth_chainId, eth_getBalance and the       *)
(* unimplemented!() placeholders).                                         *)
(*                                                                         *)
(* Byte strings are sequences of naturals below 256.  The 256-bit          *)
(* arithmetic of secp256k1 is scaled down to a group of prime order        *)
(* SECP256K1N = 2 * SECP256K1N_HALF + 1 in which ECDSA is computed, not    *)
(* assumed: a signature is made with Sign and the signer is recovered      *)
(* with the recovery equation Q = r^-1 (s R - h G).                        *)
(***************************************************************************)
EXTENDS Integers, Sequences, FiniteSets, TLC

VARIABLES
    cfg,      \* the loaded configuration (engine.*), read once at startup
    adapter,  \* the shared engine adapter's attributes
    server,   \* the sidecar process: "running" or "aborted"
    req,      \* per request: position in send_raw_transaction and its locals
    node,     \* the Aptos node behind the adapter: sequence numbers per account
    clock,    \* SystemTime::now() in seconds since the epoch
    rpc,      \* per request of another method: the call, the query, the answer
    pin,      \* input handed to a pure function (function-level specification)
    pout      \* what the function returned for pin

vars == <<cfg, adapter, server, req, node, clock, rpc, pin, pout>>

(***************************************************************************)
(* Bounds of the model.                                                    *)
(***************************************************************************)
\* number of concurrent eth_sendRawTransaction requests
NumRequests == 2
\* largest value of the transaction fields that precede the signature
MaxNonce == 1
\* largest sequence number an account starts with
MaxSeq == 7
\* largest reading of the system clock, in seconds
MaxNow == 1

(***************************************************************************)
(* Program constants.                                                      *)
(***************************************************************************)
\* alloy_eips::eip7702::constants::SECP256K1N_HALF, scaled to the model's group
SECP256K1N_HALF == 3
\* order of the (scaled) secp256k1 group; must be an odd prime
SECP256K1N == 2 * SECP256K1N_HALF + 1
\* jsonrpsee INTERNAL_ERROR_CODE
INTERNAL_ERROR_CODE == -32603
\* u64::MAX, with the 64 bits of a u64 scaled to 30
U64_MAX == 1073741823

\* an absent value (Option::None) and a present one
NONE == [some |-> FALSE]
Some(v) == [some |-> TRUE, val |-> v]

Min(a, b) == IF a <= b THEN a ELSE b
Max(a, b) == IF a >= b THEN a ELSE b

(***************************************************************************)
(* secp256k1 (scaled).  Points of the group are the scalars 0..N-1 with    *)
(* generator 1 and 0 the point at infinity; the x-coordinate of a point P  *)
(* is min(P, N-P), shared by P and -P, and the parity bit tells them       *)
(* apart.                                                                  *)
(***************************************************************************)
Scalars == 0 .. (SECP256K1N - 1)

ModN(x) == x % SECP256K1N

InvN(a) == CHOOSE x \in 1 .. (SECP256K1N - 1) : ModN(a * x) = 1

XCoord(P) == Min(P, SECP256K1N - P)

YParity(P) == P > SECP256K1N_HALF

\* values a decoded r or s takes: the scalars, and n itself (out of range)
SigValues == 0 .. SECP256K1N

Signature == [r : SigValues, s : SigValues, v : BOOLEAN]

\* SECP256K1.sign_ecdsa_recoverable with secret d and nonce k, over digest h
sign_message(d, k, h) ==
    LET r == XCoord(k)
        s == ModN(InvN(k) * (h + r * d))
    IN  [r |-> r, s |-> s, v |-> YParity(k)]

\* the same signature with s replaced by n - s and the parity flipped
Malleate(sig) ==
    [r |-> sig.r, s |-> ModN(SECP256K1N - sig.s), v |-> ~sig.v]

Ok(v) == [ok |-> TRUE, val |-> v]
Err(e) == [ok |-> FALSE, err |-> e]

\* keccak256(public.serialize_uncompressed()[1..]) as 32 bytes
keccak256_pubkey(Q) == [i \in 1 .. 32 |-> (Q * 37 + i * (Q + 11)) % 256]

public_key_to_address(Q) == SubSeq(keccak256_pubkey(Q), 13, 32)

\* impl_secp256k1::recover_signer_unchecked: from_compact rejects r or s
\* outside 1..n-1 (zero or overflowing), recover_ecdsa rejects an r that is
\* no x-coordinate and a recovered key at infinity
imp_recover_signer_unchecked(sig, msg) ==
    IF sig.r = 0 \/ sig.s = 0 \/ sig.r >= SECP256K1N \/ sig.s >= SECP256K1N
    THEN Err("secp256k1")
    ELSE IF sig.r > SECP256K1N_HALF THEN Err("secp256k1")
    ELSE LET R == IF sig.v THEN SECP256K1N - sig.r ELSE sig.r
             Q == ModN(InvN(sig.r) * (sig.s * R + SECP256K1N * SECP256K1N - msg))
         IN  IF Q = 0 THEN Err("secp256k1") ELSE Ok(public_key_to_address(Q))

\* secp256k1::recover_signer_unchecked
recover_signer_unchecked(signature, hash) ==
    LET res == imp_recover_signer_unchecked(signature, hash)
    IN  IF res.ok THEN res ELSE Err("RecoveryError")

recover_signer_NoLowS(signature, hash) ==
    recover_signer_unchecked(signature, hash)

\* secp256k1::recover_signer (EIP-2)
recover_signer(signature, hash) ==
    IF signature.s > SECP256K1N_HALF THEN Err("RecoveryError")
    ELSE recover_signer_unchecked(signature, hash)

(***************************************************************************)
(* EIP-2718 envelopes over RLP.  A transaction carries its type, one field *)
(* standing for the fields before the signature, and the signature.        *)
(***************************************************************************)
TxTypes == {"Legacy", "Eip2930", "Eip1559", "Eip4844", "Eip7702"}

\* Transaction::ty / TxType as u8
ty(t) ==
    CASE t = "Legacy" -> 0
      [] t = "Eip2930" -> 1
      [] t = "Eip1559" -> 2
      [] t = "Eip4844" -> 3
      [] t = "Eip7702" -> 4

\* u8::try_into::<TxType>
TxTypeOf(b) ==
    IF b \in 0 .. 4 THEN Ok(CHOOSE t \in TxTypes : ty(t) = b) ELSE Err("UnexpectedType")

TransactionSigned == [type : TxTypes, nonce : 0 .. MaxNonce, signature : Signature]

\* RLP of an integer below 128: itself, and 0x80 for zero
rlp_encode_int(n) == IF n = 0 THEN <<128>> ELSE <<n>>

rlp_decode_int_LeadingZero(buf) ==
    IF buf = <<>> THEN Err("InputTooShort")
    ELSE IF Head(buf) < 128 THEN [ok |-> TRUE, val |-> Head(buf), rest |-> Tail(buf)]
    ELSE IF Head(buf) = 128 THEN [ok |-> TRUE, val |-> 0, rest |-> Tail(buf)]
    ELSE Err("Overflow")

\* RLP decoding of an integer: a leading zero byte is not canonical, and
\* strings longer than one byte and lists are no single-byte integers
rlp_decode_int(buf) ==
    IF buf = <<>> THEN Err("InputTooShort")
    ELSE IF Head(buf) = 0 THEN Err("LeadingZero")
    ELSE IF Head(buf) < 128 THEN [ok |-> TRUE, val |-> Head(buf), rest |-> Tail(buf)]
    ELSE IF Head(buf) = 128 THEN [ok |-> TRUE, val |-> 0, rest |-> Tail(buf)]
    ELSE Err("Overflow")

\* the parity of a typed transaction (bool::decode)
rlp_decode_bool(buf) ==
    IF buf = <<>> THEN Err("InputTooShort")
    ELSE IF Head(buf) = 128 THEN [ok |-> TRUE, val |-> FALSE, rest |-> Tail(buf)]
    ELSE IF Head(buf) = 1 THEN [ok |-> TRUE, val |-> TRUE, rest |-> Tail(buf)]
    ELSE Err("Custom")

\* the v of a legacy transaction: 27 / 28
rlp_decode_legacy_v(buf) ==
    IF buf = <<>> THEN Err("InputTooShort")
    ELSE IF Head(buf) = 27 THEN [ok |-> TRUE, val |-> FALSE, rest |-> Tail(buf)]
    ELSE IF Head(buf) = 28 THEN [ok |-> TRUE, val |-> TRUE, rest |-> Tail(buf)]
    ELSE Err("Custom")

\* length of the RLP payload: the field and v, r, s, one byte each
PayloadLength == Len(rlp_encode_int(0)) * 4

\* RlpEcdsaEncodableTx::rlp_encode_signed
rlp_encode_signed(tx) ==
    <<192 + PayloadLength>>
        \o rlp_encode_int(tx.nonce)
        \o (IF tx.type = "Legacy"
            THEN (IF tx.signature.v THEN <<28>> ELSE <<27>>)
            ELSE (IF tx.signature.v THEN <<1>> ELSE <<128>>))
        \o rlp_encode_int(tx.signature.r)
        \o rlp_encode_int(tx.signature.s)

\* Encodable2718::encoded_2718: the type byte unless legacy, then the list
encoded_2718(tx) ==
    IF tx.type = "Legacy" THEN rlp_encode_signed(tx)
    ELSE <<ty(tx.type)>> \o rlp_encode_signed(tx)

\* RlpEcdsaDecodableTx::rlp_decode_with_signature: the list header, the
\* fields, the signature, and the check that the list was consumed exactly.
\* Bytes after the list stay in the buffer (rest).
rlp_decode_with_signature(type, buf) ==
    IF buf = <<>> THEN Err("InputTooShort")
    ELSE IF Head(buf) < 192 THEN Err("UnexpectedString")
    ELSE IF Head(buf) > 247 THEN Err("UnexpectedLength")
    ELSE LET payload_length == Head(buf) - 192
             body == Tail(buf)
         IN  IF Len(body) < payload_length THEN Err("InputTooShort")
             ELSE LET remaining == Len(body)
                      n == rlp_decode_int(body)
                  IN  IF ~n.ok THEN n
                      ELSE LET v == IF type = "Legacy" THEN rlp_decode_legacy_v(n.rest)
                                    ELSE rlp_decode_bool(n.rest)
                           IN  IF ~v.ok THEN v
                               ELSE LET r == rlp_decode_int(v.rest)
                                    IN  IF ~r.ok THEN r
                                        ELSE LET s == rlp_decode_int(r.rest)
                                             IN  IF ~s.ok THEN s
                                                 ELSE IF Len(s.rest) + payload_length /= remaining
                                                 THEN Err("ListLengthMismatch")
                                                 ELSE IF n.val > MaxNonce
                                                 THEN Err("Overflow")
                                                 ELSE [ok |-> TRUE,
                                                       val |-> [type |-> type,
                                                                nonce |-> n.val,
                                                                signature |-> [r |-> r.val,
                                                                               s |-> s.val,
                                                                               v |-> v.val]],
                                                       rest |-> s.rest]

typed_decode_LegacyTag(tyb, buf) ==
    LET t == TxTypeOf(tyb)
    IN  IF ~t.ok THEN Err("UnexpectedType")
        ELSE rlp_decode_with_signature(t.val, buf)

\* Decodable2718::typed_decode for TransactionSigned
typed_decode(tyb, buf) ==
    LET t == TxTypeOf(tyb)
    IN  IF ~t.ok THEN Err("UnexpectedType")
        ELSE IF t.val = "Legacy" THEN Err("UnexpectedType")
        ELSE rlp_decode_with_signature(t.val, buf)

\* Decodable2718::fallback_decode for TransactionSigned
fallback_decode(buf) == rlp_decode_with_signature("Legacy", buf)

\* Decodable2718::decode_2718: a first byte up to 0x7f is a type tag
decode_2718(buf) ==
    IF buf = <<>> THEN Err("InputTooShort")
    ELSE IF Head(buf) <= 127 THEN typed_decode(Head(buf), Tail(buf))
    ELSE fallback_decode(buf)

\* keccak256 of a byte string: an opaque 32-byte digest, one per preimage
keccak256(bytes) == [keccak256 |-> bytes]

\* SignableTransaction::signature_hash: keccak256 of the unsigned encoding,
\* reduced to a scalar of the group
signature_hash(tx) == ModN(3 * ty(tx.type) + 5 * tx.nonce + 1)

\* TransactionSigned::recover_signer
tx_recover_signer(tx) == recover_signer(tx.signature, signature_hash(tx))

\* SignedTransaction::tx_hash: keccak256(self.encoded_2718())
tx_hash(tx) == keccak256(encoded_2718(tx))

\* SignedTransaction::try_into_recovered
try_into_recovered(tx) ==
    LET signer == tx_recover_signer(tx)
    IN  IF signer.ok THEN Ok([tx |-> tx, signer |-> signer.val]) ELSE Err(tx)

recover_raw_transaction_NoEmptyCheck(data) ==
    LET transaction == decode_2718(data)
    IN  IF ~transaction.ok THEN Err("FailedToDecodeSignedTransaction")
        ELSE LET recovered == try_into_recovered(transaction.val)
             IN  IF recovered.ok THEN recovered ELSE Err("InvalidTransactionSignature")

\* reth_rpc_eth_types::utils::recover_raw_transaction
recover_raw_transaction(data) ==
    IF data = <<>> THEN Err("EmptyRawTransactionData")
    ELSE LET transaction == decode_2718(data)
         IN  IF ~transaction.ok THEN Err("FailedToDecodeSignedTransaction")
             ELSE LET recovered == try_into_recovered(transaction.val)
                  IN  IF recovered.ok THEN recovered
                      ELSE Err("InvalidTransactionSignature")

(***************************************************************************)
(* Address codec.                                                          *)
(***************************************************************************)
to_aptos_address_PadRight(address) ==
    [i \in 1 .. 32 |-> IF i <= 20 THEN address[i] ELSE 0]

\* rpc::eth::to_aptos_address: 32 zero bytes, the last 20 overwritten
to_aptos_address(address) ==
    [i \in 1 .. 32 |-> IF i <= 12 THEN 0 ELSE address[i - 12]]

(***************************************************************************)
(* Configuration (config/engine.rs).  A function identifier such as        *)
(* 0x100::evm::transact is kept as its three parts.                        *)
(***************************************************************************)
DefaultCoinType == <<"0x1", "aptos_coin", "AptosCoin">>
DefaultAuthFunc == <<"0x100", "evm", "authenticate">>
DefaultEntryFunc == <<"0x100", "evm", "transact">>
CustomCoinType == <<"0x200", "coin", "Eth">>
CustomAuthFunc == <<"0x200", "eth", "verify">>
CustomEntryFunc == <<"0x200", "eth", "run">>

\* RemoteEngineConfig::timeout default, seconds
DefaultTimeout == 10
\* NamedChain::TESTING.id()
TestingChainId == 4
\* aptos_global_constants
GAS_UNIT_PRICE == 100
MAX_GAS_AMOUNT == 2000000

\* RemoteEngineConfig::endpoint default, and a configured one
DefaultEndpoint == "http://127.0.0.1:8080/v1"
CustomEndpoint == "http://node.example/v1"

\* engine.basic.* and engine.adapter as written in the configuration: the
\* remote variant, with its timeout and the default endpoint
Config(coin_type, auth_func, entry_func, timeout) ==
    [coin_type |-> coin_type, auth_func |-> auth_func,
     entry_func |-> entry_func, adapter |-> "Remote",
     endpoint |-> NONE, timeout |-> timeout]

\* nothing configured; both functions configured; the entry function alone;
\* the largest timeout
ConfigDefault == Config(NONE, NONE, NONE, NONE)
ConfigBothFuncs == Config(NONE, Some(CustomAuthFunc), Some(CustomEntryFunc), NONE)
ConfigEntryFunc == Config(NONE, NONE, Some(CustomEntryFunc), NONE)
ConfigMaxTimeout == Config(NONE, NONE, NONE, Some(U64_MAX))
ConfigCoinType == Config(Some(CustomCoinType), NONE, NONE, NONE)
ConfigEndpoint == [ConfigDefault EXCEPT !.endpoint = Some(CustomEndpoint)]
\* engine.adapter = Local
ConfigLocal == [ConfigDefault EXCEPT !.adapter = "Local"]
Configs == {ConfigDefault, ConfigBothFuncs, ConfigEntryFunc, ConfigMaxTimeout}

unwrap_or(opt, default) == IF opt.some THEN opt.val ELSE default

\* EngineBasicConfig::coin_type
config_coin_type(c) == unwrap_or(c.coin_type, DefaultCoinType)

\* EngineBasicConfig::auth_func
config_auth_func(c) == unwrap_or(c.auth_func, DefaultAuthFunc)

\* EngineBasicConfig::entry_func: reads self.auth_func
config_entry_func(c) == unwrap_or(c.auth_func, DefaultEntryFunc)

\* RemoteEngineConfig::timeout
config_timeout(c) == unwrap_or(c.timeout, DefaultTimeout)

\* RemoteEngineConfig::endpoint
config_endpoint(c) == unwrap_or(c.endpoint, DefaultEndpoint)

\* AdapterConfig::build_adapter: RemoteEngineAdapter::new(coin_type,
\* auth_func, entry_func, remote) or LocalEngineAdapter::new(coin_type)
build_adapter(c) ==
    IF c.adapter = "Local"
    THEN [kind |-> "Local", coin_type |-> config_coin_type(c)]
    ELSE [kind |-> "Remote",
          coin_type |-> config_coin_type(c),
          auth_func |-> config_auth_func(c),
          entry_func |-> config_entry_func(c),
          endpoint |-> config_endpoint(c),
          chain_id |-> TestingChainId,
          timeout |-> config_timeout(c)]

(***************************************************************************)
(* Aptos transaction builder (engine/adapter/client.rs).                   *)
(***************************************************************************)
\* what the sources leave to the build: whether u64 arithmetic is checked
\* (overflow-checks) and whether a panic unwinds the task or aborts
Builds == [overflow_checks : BOOLEAN, panic : {"unwind", "abort"}]

\* u64 + u64 without overflow checks
wrapping_add(a, b) == (a + b) % (U64_MAX + 1)

\* the builds that differ in behaviour on now + timeout: all of them when the
\* sum does not fit a u64, and otherwise none
BuildsFor(now, timeout) ==
    IF now + timeout > U64_MAX THEN Builds
    ELSE {[overflow_checks |-> FALSE, panic |-> "unwind"]}

\* SystemTime::now()...as_secs() + timeout panics when the sum does not fit
\* and the build checks overflow
get_aa_transaction_panics(now, timeout, build) ==
    build.overflow_checks /\ now + timeout > U64_MAX

\* MemberId::from_str: address::module::member
MemberId_from_str(str) ==
    [module_id |-> [address |-> str[1], name |-> str[2]], member_id |-> str[3]]

\* FunctionInfo::from_str
FunctionInfo_from_str(str) ==
    [module_address |-> str[1], module_name |-> str[2], function_name |-> str[3]]

\* bcs::to_bytes of an AccountAddress: its 32 bytes
bcs_address(a) == a

\* bcs::to_bytes of a Vec<u8>: the ULEB128 length (below 128), then the bytes
bcs_bytes(b) == <<Len(b)>> \o b

\* EntryFunction::new
EntryFunction_new(module, function, ty_args, args) ==
    [module |-> module, function |-> function, ty_args |-> ty_args, args |-> args]

\* TransactionBuilder::new
TransactionBuilder_new(payload, expiration_timestamp_secs, chain_id) ==
    [payload |-> payload,
     chain_id |-> chain_id,
     expiration_timestamp_secs |-> expiration_timestamp_secs,
     max_gas_amount |-> MAX_GAS_AMOUNT,
     gas_unit_price |-> Max(GAS_UNIT_PRICE, 1),
     sender |-> NONE,
     sequence_number |-> NONE]

\* TransactionBuilder::build -> RawTransaction::new
TransactionBuilder_build(b) ==
    [sender |-> b.sender.val,
     sequence_number |-> b.sequence_number.val,
     payload |-> b.payload,
     max_gas_amount |-> b.max_gas_amount,
     gas_unit_price |-> b.gas_unit_price,
     expiration_timestamp_secs |-> b.expiration_timestamp_secs,
     chain_id |-> b.chain_id]

AccountAuthenticator_abstraction_WithDigest(function_info, signing_message_digest, authenticator) ==
    [type |-> "Abstraction",
     function_info |-> function_info,
     auth_data |-> [variant |-> "V1",
                    signing_message_digest |-> <<1>>,
                    authenticator |-> authenticator]]

\* AccountAuthenticator::abstraction
AccountAuthenticator_abstraction(function_info, signing_message_digest, authenticator) ==
    [type |-> "Abstraction",
     function_info |-> function_info,
     auth_data |-> [variant |-> "V1",
                    signing_message_digest |-> signing_message_digest,
                    authenticator |-> authenticator]]

\* SignedTransaction::new_single_sender
new_single_sender(raw_txn, authenticator) ==
    [raw_txn |-> raw_txn,
     authenticator |-> [type |-> "SingleSender", sender |-> authenticator]]

get_aa_transaction_WrongSender(self, tx, sender, sequence_number, max_gas_amount, gas_unit_price, chain_id, timeout, now) ==
    LET entry_func == MemberId_from_str(self.entry_func)
        builder == TransactionBuilder_new(
                       [type |-> "EntryFunction",
                        entry |-> EntryFunction_new(entry_func.module_id,
                                                    entry_func.member_id, <<>>,
                                                    <<bcs_address(sender), bcs_bytes(tx)>>)],
                       wrapping_add(now, timeout), chain_id)
    IN  new_single_sender(
            TransactionBuilder_build(
                [builder EXCEPT !.sender = Some([i \in 1 .. 32 |-> 0]),
                                !.sequence_number = Some(sequence_number),
                                !.max_gas_amount = max_gas_amount,
                                !.gas_unit_price = gas_unit_price]),
            AccountAuthenticator_abstraction(FunctionInfo_from_str(self.auth_func),
                                             <<>>, <<>>))

\* AAClient::get_aa_transaction; now is the reading of SystemTime::now()
get_aa_transaction(self, tx, sender, sequence_number, max_gas_amount, gas_unit_price, chain_id, timeout, now) ==
    LET entry_func == MemberId_from_str(self.entry_func)
        builder == TransactionBuilder_new(
                       [type |-> "EntryFunction",
                        entry |-> EntryFunction_new(entry_func.module_id,
                                                    entry_func.member_id, <<>>,
                                                    <<bcs_address(sender), bcs_bytes(tx)>>)],
                       wrapping_add(now, timeout), chain_id)
    IN  new_single_sender(
            TransactionBuilder_build(
                [builder EXCEPT !.sender = Some(sender),
                                !.sequence_number = Some(sequence_number),
                                !.max_gas_amount = max_gas_amount,
                                !.gas_unit_price = gas_unit_price]),
            AccountAuthenticator_abstraction(FunctionInfo_from_str(self.auth_func),
                                             <<>>, <<>>))

(***************************************************************************)
(* JSON-RPC errors.                                                        *)
(***************************************************************************)
\* ErrorObjectOwned::owned(code, message, None)
ErrorObject(code, message) == [code |-> code, message |-> message]

\* EthApiError's Display
EthApiError_to_string(e) ==
    CASE e = "EmptyRawTransactionData" -> "empty transaction data"
      [] e = "FailedToDecodeSignedTransaction" -> "failed to decode signed transaction"
      [] e = "InvalidTransactionSignature" -> "invalid transaction signature"

\* reth_rpc_server_types::result::internal_rpc_err
internal_rpc_err(msg) == ErrorObject(INTERNAL_ERROR_CODE, msg)

\* From<EthApiError> for ErrorObject
EthApiError_into(e) == internal_rpc_err(EthApiError_to_string(e))

\* anyhow::Error as its chain of messages, outermost first
anyhow(message) == <<message>>

\* anyhow::Context::context
context(e, message) == <<message>> \o e

anyhow_to_string_Alternate(e) == e

\* anyhow::Error's Display (e.to_string()): the outermost message only
anyhow_to_string(e) == e[1]

\* reqwest StatusCode::is_success
is_success(status) == status >= 200 /\ status <= 299

handle_error_UpstreamText(message, status, error) == anyhow(error)

\* ResponseHandler::handle_error: the status and the text go to the WARN log,
\* the error carries the handler's fixed message
handle_error(message, status, error) == anyhow(message)

\* the line handle_error writes: tracing::warn!("{}: status={}, message={}", ..)
handle_error_log(message, status, error) ==
    [level |-> "WARN", text |-> message, status |-> status, message |-> error]

\* reqwest's error for a body that is not JSON of the expected type, as anyhow
reqwest_decode_error == anyhow("error decoding response body")

\* ResponseHandler::handle on a received response [status, body, json], json
\* the body deserialized as R, absent when it is not JSON of that type
ResponseHandler_handle(error, response) ==
    IF is_success(response.status)
    THEN IF response.json.some THEN Ok(response.json.val) ELSE Err(reqwest_decode_error)
    ELSE Err(handle_error(error, response.status, response.body))

\* the log lines ResponseHandler::handle leaves for a response
ResponseHandler_log(error, response) ==
    IF is_success(response.status) THEN <<>>
    ELSE <<handle_error_log(error, response.status, response.body)>>

\* aptos_rest_client parse_error: the error made of the response's status and body
parse_error(response) == anyhow([status |-> response.status, error |-> response.body])

\* aptos_rest_client Client::json after check_response
rest_client_json(response) ==
    IF ~is_success(response.status) THEN Err(parse_error(response))
    ELSE IF response.json.some THEN Ok(response.json.val)
    ELSE Err(reqwest_decode_error)

internal_error_InvalidParams(message) == ErrorObject(-32602, message)

\* rpc::eth::internal_error
internal_error(message) == ErrorObject(INTERNAL_ERROR_CODE, message)

\* RemoteEngineAdapter::get_block_by_height: the GET it sends,
\* format!("{}/blocks/by_height/{}", self.endpoint, block_height), with no
\* query string; _with_transactions is not used
Remote_get_block_by_height_request(self, block_height, _with_transactions) ==
    [method |-> "GET",
     path |-> <<self.endpoint, "blocks", "by_height", block_height>>,
     query |-> <<>>]

(***************************************************************************)
(* The CORS layer of the front end (server/cors.rs).  An origin is a string *)
(* kept as its bytes.                                                      *)
(***************************************************************************)
\* "*" and "all"
WILDCARD == <<42>>
ALL == <<97, 108, 108>>

\* ItemOrList<T>
Item(item) == [item |-> item]
List(list) == [list |-> list]

\* ItemOrList::into_list
into_list(self) == IF "item" \in DOMAIN self THEN <<self.item>> ELSE self.list

\* HeaderValue::from_str: visible ASCII and tab only
HeaderValue_from_str(o) ==
    IF \A i \in 1 .. Len(o) : (o[i] >= 32 /\ o[i] /= 127) \/ o[i] = 9
    THEN Ok(o) ELSE Err("InvalidHeaderValue")

\* tower_http AllowOrigin::list: panics when the list holds the wildcard
AllowOrigin_list(list) ==
    IF \E i \in 1 .. Len(list) : list[i] = WILDCARD
    THEN [ok |-> FALSE, panic |-> "Wildcard origin cannot be passed to AllowOrigin::list"]
    ELSE Ok([allow_origin |-> "list", origins |-> list])

\* CorsLayer::new() and CorsLayer::permissive()
CorsLayer_new == [allow_origin |-> "unset", origins |-> <<>>]
CorsLayer_permissive == [allow_origin |-> "any", origins |-> <<>>]

\* server::cors::cors_layer
cors_layer(cors) ==
    LET origins == IF cors.some THEN into_list(cors.val) ELSE <<>>
    IN  IF origins = <<>> THEN Ok(CorsLayer_new)
        ELSE IF Len(origins) = 1 /\ (origins[1] = WILDCARD \/ origins[1] = ALL)
        THEN Ok(CorsLayer_permissive)
        ELSE IF \E i \in 1 .. Len(origins) : ~HeaderValue_from_str(origins[i]).ok
        THEN Err("InvalidHeaderValue")
        ELSE AllowOrigin_list([i \in 1 .. Len(origins) |->
                                  HeaderValue_from_str(origins[i]).val])

(***************************************************************************)
(* Function-level specification: an input is drawn and the function it is  *)
(* meant for is applied to it once.                                        *)
(***************************************************************************)
\* the address of scenario S1, 0xC96aAa54E2d44c299564da76e1cD3184A2386B8D
S1Address ==
    <<201, 106, 170, 84, 226, 212, 76, 41, 149, 100,
      218, 118, 225, 205, 49, 132, 162, 56, 107, 141>>

Keys == 1 .. (SECP256K1N - 1)

EthAddresses ==
    {S1Address}
        \cup {public_key_to_address(Q) : Q \in Keys}
        \cup {[i \in 1 .. 20 |-> IF i = p THEN b ELSE 0] : p \in 1 .. 20, b \in {0, 1, 255}}
        \cup {[i \in 1 .. 20 |-> 255]}

\* every encoding of a transaction, and the same bytes with a byte appended,
\* with the last byte cut, with the type byte replaced and with the list
\* header replaced
EncodedTransactions == {encoded_2718(tx) : tx \in TransactionSigned}

RawInputs ==
    {<<>>, <<0>>, <<5>>, <<128>>, <<192>>, <<196>>}
        \cup EncodedTransactions
        \cup {e \o <<b>> : e \in EncodedTransactions, b \in {0, 7}}
        \cup {SubSeq(e, 1, Len(e) - 1) : e \in EncodedTransactions}
        \cup {<<b>> \o e : e \in EncodedTransactions, b \in {0, 5}}
        \cup {<<195>> \o Tail(e) : e \in {x \in EncodedTransactions : Head(x) >= 192}}

\* envelopes: the encodings of some transactions, every type tag up to 5 and
\* the last one, 0x7f, in front of their signed RLP lists, and short inputs
EnvelopeTransactions ==
    [type : TxTypes, nonce : 0 .. MaxNonce,
     signature : [r : {1, SECP256K1N}, s : {1, SECP256K1N_HALF + 1}, v : BOOLEAN]]

EnvelopeInputs ==
    {<<0>>, <<5>>, <<128>>, <<192>>, <<196>>}
        \cup {encoded_2718(tx) : tx \in EnvelopeTransactions}
        \cup {<<b>> \o rlp_encode_signed(tx) : b \in (0 .. 5) \cup {127}, tx \in EnvelopeTransactions}

\* the transaction of a type and field signed with secret d and nonce k
SignTransaction(type, nonce, d, k) ==
    [type |-> type, nonce |-> nonce,
     signature |-> sign_message(d, k, signature_hash([type |-> type, nonce |-> nonce]))]

\* the values a mutated byte takes
MutationBytes == {0, 1, 2, 3, 27, 28, 128, 129, 195, 196, 197}

\* validly signed transactions (s in 1..n/2, as libsecp256k1 normalises it),
\* each with one byte of its encoding to replace; position 0 replaces none
SignedInputs ==
    {a \in [type : TxTypes, nonce : 0 .. MaxNonce, d : Keys, k : Keys,
            position : 0 .. 6, byte : MutationBytes] :
        LET t == SignTransaction(a.type, a.nonce, a.d, a.k)
        IN  /\ t.signature.s >= 1
            /\ t.signature.s <= SECP256K1N_HALF
            /\ a.position <= Len(encoded_2718(t))
            /\ IF a.position = 0 THEN a.byte = 0
               ELSE a.byte /= encoded_2718(t)[a.position]}

\* the bytes handed to the decoder for such an input
MutatedEncoding(a) ==
    LET encoded == encoded_2718(SignTransaction(a.type, a.nonce, a.d, a.k))
    IN  IF a.position = 0 THEN encoded
        ELSE [encoded EXCEPT ![a.position] = a.byte]

\* received responses: statuses on both sides of 2xx, bodies that are and are
\* not JSON of the expected type, for the fixed texts of two operations
HandlerInputs ==
    [error : {"Failed to get account data", "Failed to get ledger info"},
     response : [status : {199, 200, 202, 299, 300, 400, 404, 500},
                 body : {"", "sequence number too old", "mempool is full"},
                 json : {NONE, Some([sequence_number |-> 0]),
                         Some([sequence_number |-> MaxSeq])}]]

\* heights and flags asked of get_block_by_height, on two adapters
BlockByHeightInputs ==
    [self : {build_adapter(ConfigDefault), build_adapter(ConfigEndpoint)},
     block_height : {0, 1, MaxSeq, U64_MAX},
     with_transactions : BOOLEAN]

\* origins: "*", "all", "a", "b" and "a" followed by a line feed
Origins == {WILDCARD, ALL, <<97>>, <<98>>, <<97, 10>>}

\* server.cors: absent, one string, or a list of up to two strings
CorsInputs ==
    {NONE}
        \cup {Some(Item(o)) : o \in Origins}
        \cup {Some(List(<<>>))}
        \cup {Some(List(<<o>>)) : o \in Origins}
        \cup {Some(List(<<o1, o2>>)) : o1 \in Origins, o2 \in Origins}

PureInputs ==
    [fn : {"to_aptos_address"}, arg : EthAddresses]
        \cup [fn : {"recover_raw_transaction"}, arg : RawInputs]
        \cup [fn : {"recover_signer"}, arg : Signature \X Scalars]
        \cup [fn : {"decode_2718"}, arg : EnvelopeInputs]
        \cup [fn : {"decode_and_recover"}, arg : SignedInputs]
        \cup [fn : {"ResponseHandler_handle"}, arg : HandlerInputs]
        \cup [fn : {"get_block_by_height"}, arg : BlockByHeightInputs]
        \cup [fn : {"cors_layer"}, arg : CorsInputs]

\* a request that has not arrived: pc is the position in send_raw_transaction,
\* calls the engine-adapter operations issued for it so far, upstream the
\* last HTTP response of the node, and the other fields the handler's and the
\* adapter's locals; http is the status of the HTTP response, once written
IdleRequest ==
    [pc |-> "idle", bytes |-> <<>>, recovered |-> NONE, sender |-> NONE,
     account |-> NONE, now |-> NONE, submitted |-> NONE, upstream |-> NONE,
     pending |-> NONE, result |-> NONE, calls |-> <<>>, http |-> NONE]

Requests == 1 .. NumRequests

\* a request of another method that has not arrived: the method and its
\* parameters, the query put to the engine adapter, the node's response and
\* the result written to the caller
IdleCall ==
    [pc |-> "idle", method |-> "", params |-> NONE, query |-> NONE,
     upstream |-> NONE, result |-> NONE, http |-> NONE]

CallToAptosAddress ==
    /\ ~pout.some
    /\ pin.fn = "to_aptos_address"
    /\ pout' = Some(to_aptos_address(pin.arg))
    /\ UNCHANGED <<cfg, adapter, server, req, node, clock, rpc, pin>>

CallRecoverRawTransaction ==
    /\ ~pout.some
    /\ pin.fn = "recover_raw_transaction"
    /\ pout' = Some(recover_raw_transaction(pin.arg))
    /\ UNCHANGED <<cfg, adapter, server, req, node, clock, rpc, pin>>

CallRecoverSigner ==
    /\ ~pout.some
    /\ pin.fn = "recover_signer"
    /\ pout' = Some([strict |-> recover_signer(pin.arg[1], pin.arg[2]),
                     unchecked |-> recover_signer_unchecked(pin.arg[1], pin.arg[2])])
    /\ UNCHANGED <<cfg, adapter, server, req, node, clock, rpc, pin>>

CallDecode2718 ==
    /\ ~pout.some
    /\ pin.fn = "decode_2718"
    /\ pout' = Some(decode_2718(pin.arg))
    /\ UNCHANGED <<cfg, adapter, server, req, node, clock, rpc, pin>>

CallDecodeAndRecover ==
    /\ ~pout.some
    /\ pin.fn = "decode_and_recover"
    /\ pout' = Some(recover_raw_transaction(MutatedEncoding(pin.arg)))
    /\ UNCHANGED <<cfg, adapter, server, req, node, clock, rpc, pin>>

CallResponseHandler ==
    /\ ~pout.some
    /\ pin.fn = "ResponseHandler_handle"
    /\ pout' = Some([result |-> ResponseHandler_handle(pin.arg.error, pin.arg.response),
                     log |-> ResponseHandler_log(pin.arg.error, pin.arg.response)])
    /\ UNCHANGED <<cfg, adapter, server, req, node, clock, rpc, pin>>

CallGetBlockByHeight ==
    /\ ~pout.some
    /\ pin.fn = "get_block_by_height"
    /\ pout' = Some(Remote_get_block_by_height_request(pin.arg.self, pin.arg.block_height,
                                                       pin.arg.with_transactions))
    /\ UNCHANGED <<cfg, adapter, server, req, node, clock, rpc, pin>>

CallCorsLayer ==
    /\ ~pout.some
    /\ pin.fn = "cors_layer"
    /\ pout' = Some(cors_layer(pin.arg))
    /\ UNCHANGED <<cfg, adapter, server, req, node, clock, rpc, pin>>

InitPure ==
    /\ cfg = NONE
    /\ adapter = NONE
    /\ server = "running"
    /\ req = [r \in Requests |-> IdleRequest]
    /\ node = NONE
    /\ clock = 0
    /\ rpc = NONE
    /\ pin \in PureInputs
    /\ pout = NONE

NextPure ==
    \/ CallToAptosAddress
    \/ CallRecoverRawTransaction
    \/ CallRecoverSigner
    \/ CallDecode2718
    \/ CallDecodeAndRecover
    \/ CallResponseHandler
    \/ CallGetBlockByHeight
    \/ CallCorsLayer

SpecPure == InitPure /\ [][NextPure]_vars

(***************************************************************************)
(* eth_sendRawTransaction (rpc/eth.rs) over the engine adapter.            *)
(***************************************************************************)
\* the transaction of the given type and field signed with key d, low s
SignedBy(type, nonce, d) ==
    LET h == signature_hash([type |-> type, nonce |-> nonce])
        k == CHOOSE k \in Keys :
                 /\ sign_message(d, k, h).s >= 1
                 /\ sign_message(d, k, h).s <= SECP256K1N_HALF
    IN  [type |-> type, nonce |-> nonce, signature |-> sign_message(d, k, h)]

HighS(tx) == [tx EXCEPT !.signature = Malleate(@)]

\* the raw transactions clients send: nothing, undecodable bytes, a
\* transaction with an unrecoverable signature, one with a high s, and valid
\* ones of two senders, one of them also followed by a stray byte
RequestInputs ==
    {<<>>,
     <<0>>,
     encoded_2718([type |-> "Eip1559", nonce |-> 0,
                   signature |-> [r |-> 0, s |-> 1, v |-> FALSE]]),
     encoded_2718(HighS(SignedBy("Legacy", 0, 1))),
     encoded_2718(SignedBy("Legacy", 0, 1)),
     encoded_2718(SignedBy("Eip1559", MaxNonce, 2)),
     encoded_2718(SignedBy("Legacy", 0, 1)) \o <<7>>}

\* the accounts of the senders above
SenderKeys == {1, 2}
SenderAccounts == {to_aptos_address(public_key_to_address(Q)) : Q \in SenderKeys}

\* the hash the Aptos node gives a signed transaction
aptos_hash(txn) == [aptos_hash |-> txn]

handler_recover_IgnoreError(st, bytes) ==
    LET recovered == recover_raw_transaction(bytes)
    IN  IF ~recovered.ok
        THEN [st EXCEPT !.pc = "get_account",
                        !.bytes = bytes,
                        !.recovered = Some([tx |-> SignedBy("Legacy", 0, 1),
                                            signer |-> public_key_to_address(1)]),
                        !.sender = Some(to_aptos_address(public_key_to_address(1)))]
        ELSE [st EXCEPT !.pc = "get_account",
                        !.bytes = bytes,
                        !.recovered = Some(recovered.val),
                        !.sender = Some(to_aptos_address(recovered.val.signer))]

\* send_raw_transaction up to its first await: recover_raw_transaction(&bytes)?,
\* recovered.signer(), to_aptos_address(&signer)
handler_recover(st, bytes) ==
    LET recovered == recover_raw_transaction(bytes)
    IN  IF ~recovered.ok
        THEN [st EXCEPT !.pc = "done",
                        !.bytes = bytes,
                        !.result = Some(Err(EthApiError_into(recovered.err)))]
        ELSE [st EXCEPT !.pc = "get_account",
                        !.bytes = bytes,
                        !.recovered = Some(recovered.val),
                        !.sender = Some(to_aptos_address(recovered.val.signer))]

handler_finish_Retry(st, pending) ==
    IF pending.ok
    THEN [st EXCEPT !.pc = "done",
                    !.pending = Some(pending),
                    !.result = Some(Ok(tx_hash(st.recovered.val.tx)))]
    ELSE [st EXCEPT !.pc = "get_account", !.pending = Some(pending)]

handler_finish_SwallowError(st, pending) ==
    [st EXCEPT !.pc = "done",
               !.pending = Some(pending),
               !.result = Some(Ok(tx_hash(st.recovered.val.tx)))]

\* a panic inside the handler: the request's task ends without a response
handler_panic(st) == [st EXCEPT !.pc = "panicked"]

\* what a panic does to the process
panic_server(build) == IF build.panic = "abort" THEN "aborted" ELSE "running"

\* send_raw_transaction after the adapter returned:
\* .map_err(|e| internal_error(e.to_string()))?, then Ok(*recovered.hash())
handler_finish(st, pending) ==
    [st EXCEPT !.pc = "done",
               !.pending = Some(pending),
               !.result = Some(IF pending.ok THEN Ok(tx_hash(st.recovered.val.tx))
                               ELSE Err(internal_error(anyhow_to_string(pending.err))))]

\* the adapter's submit_transaction(sender, transaction), first half: it
\* fetches the sender's account and stops at a failure
adapter_get_account(st, response) ==
    LET called == [st EXCEPT !.calls = Append(@, "get_account"),
                             !.upstream = Some(response)]
        account == ResponseHandler_handle("Failed to get account data", response)
    IN  IF account.ok
        THEN [called EXCEPT !.pc = "submit", !.account = Some(account.val)]
        ELSE handler_finish(called, account)

adapter_submit_arguments_NoGasPrice(st) ==
    [sender |-> st.sender.val,
     tx |-> st.bytes,
     sequence_number |-> st.account.val.sequence_number,
     max_gas_amount |-> MAX_GAS_AMOUNT,
     gas_unit_price |-> 0]

\* the adapter's submit_transaction, second half: the arguments it passes to
\* AAClient::submit_transaction
adapter_submit_arguments(st) ==
    [sender |-> st.sender.val,
     tx |-> st.bytes,
     sequence_number |-> st.account.val.sequence_number,
     max_gas_amount |-> MAX_GAS_AMOUNT,
     gas_unit_price |-> Max(GAS_UNIT_PRICE, 1)]

\* AAClient::submit_transaction, the transaction it posts
aa_client_transaction(self, args, now) ==
    get_aa_transaction(self, args.tx, args.sender, args.sequence_number,
                       args.max_gas_amount, args.gas_unit_price,
                       self.chain_id, self.timeout, now)

\* AAClient::submit_transaction, its result for the node's response:
\* api_client.submit(..).context("Failed to submit transaction")?.into_inner()
aa_client_result(response) ==
    LET submitted == rest_client_json(response)
    IN  IF submitted.ok THEN submitted
        ELSE Err(context(submitted.err, "Failed to submit transaction"))

\* the texts a failing node puts in its response body
Bodies == {"sequence number too old", "mempool is full"}

\* the node's answers: the account resource or a 404, and the pending
\* transaction or a 400
AccountResponse(sequence_number) ==
    [status |-> 200, body |-> "", json |-> Some([sequence_number |-> sequence_number])]
PendingResponse(txn) ==
    [status |-> 202, body |-> "", json |-> Some([hash |-> aptos_hash(txn)])]
ErrorResponse(status, body) == [status |-> status, body |-> body, json |-> NONE]

\* the Aptos node takes a transaction only with the account's current
\* sequence number, and may reject any transaction
node_accepts(n, txn) ==
    /\ txn.raw_txn.sender \in DOMAIN n.seq
    /\ txn.raw_txn.sequence_number = n.seq[txn.raw_txn.sender]

node_accept(n, txn) ==
    [seq |-> [n.seq EXCEPT ![txn.raw_txn.sender] = @ + 1],
     accepted |-> n.accepted \cup {txn}]

\* server::rpc::handle_rpc: once raw_json_request has returned, the result
\* or the JSON-RPC error goes out with StatusCode::OK; a handler that
\* panicked or still runs has written nothing
handle_rpc(st) == IF st.pc = "done" THEN [st EXCEPT !.http = Some(200)] ELSE st

SendRawTransaction_SharedBuffer(r) ==
    /\ server = "running"
    /\ req[r].pc = "idle"
    /\ rpc[r].pc = "idle"
    /\ \E bytes \in RequestInputs :
           req' = [q \in Requests |->
                      IF q = r THEN handle_rpc(handler_recover(req[r], bytes))
                      ELSE [req[q] EXCEPT !.bytes = bytes]]
    /\ UNCHANGED <<cfg, adapter, server, node, clock, rpc, pin, pout>>

\* a request arrives and runs to its first await; an HTTP request carries one
\* method
SendRawTransaction(r) ==
    /\ server = "running"
    /\ req[r].pc = "idle"
    /\ rpc[r].pc = "idle"
    /\ \E bytes \in RequestInputs :
           req' = [req EXCEPT ![r] = handle_rpc(handler_recover(@, bytes))]
    /\ UNCHANGED <<cfg, adapter, server, node, clock, rpc, pin, pout>>

\* GET {endpoint}/accounts/{sender}: the node answers with the account's
\* sequence number, or the call fails
GetAccount(r) ==
    /\ server = "running"
    /\ adapter.kind = "Remote"
    /\ req[r].pc = "get_account"
    /\ \E response \in {AccountResponse(node.seq[req[r].sender.val])}
                           \cup {ErrorResponse(404, b) : b \in Bodies} :
           req' = [req EXCEPT ![r] = handle_rpc(adapter_get_account(@, response))]
    /\ UNCHANGED <<cfg, adapter, server, node, clock, rpc, pin, pout>>

\* POST {endpoint}/transactions: the transaction is built at the clock's
\* reading and the node accepts or rejects it
SubmitTransaction(r) ==
    /\ server = "running"
    /\ adapter.kind = "Remote"
    /\ req[r].pc = "submit"
    /\ \E refusal \in {""} \cup Bodies, build \in BuildsFor(clock, adapter.timeout) :
           LET now == clock
               txn == aa_client_transaction(adapter, adapter_submit_arguments(req[r]), now)
               accepted == refusal = "" /\ node_accepts(node, txn)
               response == IF accepted THEN PendingResponse(txn)
                           ELSE IF refusal = ""
                           THEN ErrorResponse(400, "sequence number too old")
                           ELSE ErrorResponse(400, refusal)
               called == [req[r] EXCEPT !.calls = Append(@, "submit_transaction"),
                                        !.now = Some(now)]
           IN  IF get_aa_transaction_panics(now, adapter.timeout, build)
               THEN /\ req' = [req EXCEPT ![r] = handle_rpc(handler_panic(called))]
                    /\ server' = panic_server(build)
                    /\ node' = node
               ELSE /\ req' = [req EXCEPT
                                 ![r] = handle_rpc(
                                            handler_finish([called EXCEPT !.submitted = Some(txn),
                                                                          !.upstream = Some(response)],
                                                           aa_client_result(response)))]
                    /\ server' = server
                    /\ node' = IF accepted THEN node_accept(node, txn) ELSE node
    /\ UNCHANGED <<cfg, adapter, clock, rpc, pin, pout>>

\* the process starts with a configuration, in front of a node whose
\* accounts are at a sequence number, at a reading of the clock
Startups ==
    {[cfg |-> ConfigDefault, seq |-> 0, now |-> 0],
     [cfg |-> ConfigBothFuncs, seq |-> MaxSeq, now |-> MaxNow],
     [cfg |-> ConfigEntryFunc, seq |-> 0, now |-> MaxNow],
     [cfg |-> ConfigMaxTimeout, seq |-> 0, now |-> 0],
     [cfg |-> ConfigMaxTimeout, seq |-> MaxSeq, now |-> MaxNow]}

Init ==
    /\ \E s \in Startups :
           /\ cfg = s.cfg
           /\ node = [seq |-> [a \in SenderAccounts |-> s.seq], accepted |-> {}]
           /\ clock = s.now
    /\ adapter = build_adapter(cfg)
    /\ server = "running"
    /\ req = [r \in Requests |-> IdleRequest]
    /\ rpc = [r \in Requests |-> IdleCall]
    /\ pin = NONE
    /\ pout = NONE

Next ==
    \E r \in Requests : SendRawTransaction(r) \/ GetAccount(r) \/ SubmitTransaction(r)

Spec == Init /\ [][Next]_vars

(***************************************************************************)
(* The request-timeout middleware of the front end (server/mod.rs): the     *)
(* timeout layer drops the handler's future at the deadline and fails with  *)
(* Elapsed, which HandleErrorLayer turns into a status.                     *)
(***************************************************************************)
handle_error_layer_Always500(err) == 500

\* the closure given to HandleErrorLayer::new
handle_error_layer(err) == IF err = "Elapsed" THEN 408 ELSE 500

\* .timeout(self.request_timeout_seconds) firing on a request: the handler's
\* future is dropped where it awaits, and with it the call in flight
request_timeout(st) ==
    [st EXCEPT !.pc = "timed_out", !.http = Some(handle_error_layer("Elapsed"))]

\* the deadline passes while the handler awaits the engine adapter
RequestTimeout(r) ==
    /\ server = "running"
    /\ req[r].pc \in {"get_account", "submit"}
    /\ req' = [req EXCEPT ![r] = request_timeout(@)]
    /\ UNCHANGED <<cfg, adapter, server, node, clock, rpc, pin, pout>>

InitHttp == Init /\ cfg \in {ConfigDefault, ConfigBothFuncs}

NextHttp == Next \/ \E r \in Requests : RequestTimeout(r)

SpecHttp == InitHttp /\ [][NextHttp]_vars

(***************************************************************************)
(* The other methods of the surface (rpc/eth.rs, rpc/net.rs): eth_chainId  *)
(* and eth_getBalance consult the engine adapter, the rest are             *)
(* unimplemented!() placeholders.  An unsigned integer of ruint is kept as *)
(* its 64-bit limbs, least significant first.                              *)
(***************************************************************************)
U64_from_u8_LowNibble(x) == <<x % 16>>

\* alloy_primitives::U64::from(u8)
U64_from_u8(x) == <<x>>

U256_from_u64_LowByte(x) == <<x % 256, 0, 0, 0>>

\* alloy_primitives::U256::from(u64)
U256_from_u64(x) == <<x, 0, 0, 0>>

\* the hex digits of n, most significant first, without leading zeros
RECURSIVE HexDigits(_)
HexDigits(n) == IF n < 16 THEN <<n>> ELSE HexDigits(n \div 16) \o <<n % 16>>

\* the hex digits of a limb below the most significant one: all 16 of them
\* (8 in the scaled width of a u64)
RECURSIVE PaddedHexDigits(_, _)
PaddedHexDigits(n, width) ==
    IF width = 0 THEN <<>>
    ELSE PaddedHexDigits(n \div 16, width - 1) \o <<n % 16>>

\* the digits of the limbs i, i - 1, .. 1 of u, each in full
RECURSIVE LowerLimbs(_, _)
LowerLimbs(u, i) ==
    IF i = 0 THEN <<>> ELSE PaddedHexDigits(u[i], 8) \o LowerLimbs(u, i - 1)

\* serialisation of a U64/U256 as a JSON-RPC quantity: 0x and these digits
RECURSIVE Quantity(_)
Quantity(u) ==
    IF Len(u) > 1 /\ u[Len(u)] = 0 THEN Quantity(SubSeq(u, 1, Len(u) - 1))
    ELSE HexDigits(u[Len(u)]) \o LowerLimbs(u, Len(u) - 1)

\* what the node's index page holds: chain_id (u8) and block_height (u64)
LedgerInfos ==
    {[chain_id |-> 4, block_height |-> 0],
     [chain_id |-> 0, block_height |-> 1],
     [chain_id |-> 255, block_height |-> U64_MAX]}

\* the balances the node reports (u64)
Balances == {42, U64_MAX}

IndexResponse(info) == [status |-> 200, body |-> "", json |-> Some(info)]
BalanceResponse(balance) == [status |-> 200, body |-> "", json |-> Some(balance)]

\* RemoteEngineAdapter::get_ledger_info on the node's response
Remote_get_ledger_info(response) ==
    ResponseHandler_handle("Failed to get ledger info", response)

\* RemoteEngineAdapter::get_account_balance: the GET it sends,
\* {endpoint}/accounts/{address}/balance/{coin_type}
Remote_get_account_balance_query(self, address) ==
    [op |-> "get_account_balance", address |-> address, coin_type |-> self.coin_type]

\* RemoteEngineAdapter::get_account_balance on the node's response
Remote_get_account_balance(response) ==
    ResponseHandler_handle("Failed to get balance", response)

\* EthApi::chain_id after get_ledger_info returned
EthApi_chain_id(ledger_info) ==
    IF ledger_info.ok THEN Ok(Some(U64_from_u8(ledger_info.val.chain_id)))
    ELSE Err(internal_error(anyhow_to_string(ledger_info.err)))

\* EthApi::balance after get_account_balance returned
EthApi_balance(balance) ==
    IF balance.ok THEN Ok(U256_from_u64(balance.val))
    ELSE Err(internal_error(anyhow_to_string(balance.err)))

\* unimplemented!(): the handler panics
unimplemented(call) == [call EXCEPT !.pc = "panicked"]

\* the block parameter of eth_getBalance: absent, a tag, a number or a hash
BlockIds ==
    {NONE,
     Some([kind |-> "tag", value |-> "latest"]),
     Some([kind |-> "tag", value |-> "earliest"]),
     Some([kind |-> "tag", value |-> "pending"]),
     Some([kind |-> "number", value |-> "0x1"]),
     Some([kind |-> "hash", value |-> "0xc5d2460186f7233c927e7db2dcc703c0"])}

\* the addresses balances are asked for
BalanceAddresses == {S1Address, public_key_to_address(1)}

\* methods whose handler is unimplemented!(), eth_blockNumber apart
UnimplementedMethods ==
    {"eth_protocolVersion", "eth_accounts", "eth_gasPrice", "net_peerCount"}

\* eth_chainId
ChainId(r) ==
    /\ server = "running"
    /\ adapter.kind = "Remote"
    /\ rpc[r].pc = "idle"
    /\ \E response \in {IndexResponse(i) : i \in LedgerInfos}
                           \cup {ErrorResponse(500, b) : b \in Bodies} :
           rpc' = [rpc EXCEPT ![r] = handle_rpc(
                      [pc |-> "done", method |-> "eth_chainId", params |-> NONE,
                       query |-> Some([op |-> "get_ledger_info"]),
                       upstream |-> Some(response),
                       result |-> Some(EthApi_chain_id(Remote_get_ledger_info(response))),
                       http |-> NONE])]
    /\ UNCHANGED <<cfg, adapter, server, req, node, clock, pin, pout>>

\* eth_blockNumber: EthApi::block_number is unimplemented!()
BlockNumber(r) ==
    /\ server = "running"
    /\ rpc[r].pc = "idle"
    /\ \E build \in Builds :
           /\ rpc' = [rpc EXCEPT ![r] =
                          handle_rpc(unimplemented([@ EXCEPT !.method = "eth_blockNumber"]))]
           /\ server' = panic_server(build)
    /\ UNCHANGED <<cfg, adapter, req, node, clock, pin, pout>>

\* eth_getBalance(address, block_number)
Balance(r) ==
    /\ server = "running"
    /\ adapter.kind = "Remote"
    /\ rpc[r].pc = "idle"
    /\ \E address \in BalanceAddresses, block_number \in BlockIds :
       \E response \in {BalanceResponse(b) : b \in Balances}
                           \cup {ErrorResponse(404, "account not found")} :
           LET aptos_address == to_aptos_address(address)
           IN  rpc' = [rpc EXCEPT ![r] = handle_rpc(
                          [pc |-> "done", method |-> "eth_getBalance",
                           params |-> Some([address |-> address,
                                            block_number |-> block_number]),
                           query |-> Some(Remote_get_account_balance_query(adapter,
                                                                           aptos_address)),
                           upstream |-> Some(response),
                           result |-> Some(EthApi_balance(
                                               Remote_get_account_balance(response))),
                           http |-> NONE])]
    /\ UNCHANGED <<cfg, adapter, server, req, node, clock, pin, pout>>

\* any other method of the surface
Unimplemented(r) ==
    /\ server = "running"
    /\ rpc[r].pc = "idle"
    /\ \E method \in UnimplementedMethods, build \in Builds :
           /\ rpc' = [rpc EXCEPT ![r] = handle_rpc(unimplemented([@ EXCEPT !.method = method]))]
           /\ server' = panic_server(build)
    /\ UNCHANGED <<cfg, adapter, req, node, clock, pin, pout>>

InitRpc ==
    /\ cfg \in {ConfigDefault, ConfigCoinType}
    /\ adapter = build_adapter(cfg)
    /\ server = "running"
    /\ req = [r \in Requests |-> IdleRequest]
    /\ node = [seq |-> [a \in SenderAccounts |-> 0], accepted |-> {}]
    /\ clock = 0
    /\ rpc = [r \in Requests |-> IdleCall]
    /\ pin = NONE
    /\ pout = NONE

NextRpc ==
    \E r \in Requests : ChainId(r) \/ BlockNumber(r) \/ Balance(r) \/ Unimplemented(r)

SpecRpc == InitRpc /\ [][NextRpc]_vars

(***************************************************************************)
(* The same methods over the local adapter (engine/adapter/local.rs): every *)
(* operation of LocalEngineAdapter is unimplemented!(), so the handler      *)
(* panics at the call.                                                      *)
(***************************************************************************)
\* eth_chainId: adapter.get_ledger_info()
LocalChainId(r) ==
    /\ server = "running"
    /\ adapter.kind = "Local"
    /\ rpc[r].pc = "idle"
    /\ req[r].pc = "idle"
    /\ \E build \in Builds :
           /\ rpc' = [rpc EXCEPT ![r] =
                          handle_rpc(unimplemented(
                              [@ EXCEPT !.method = "eth_chainId",
                                        !.query = Some([op |-> "get_ledger_info"])]))]
           /\ server' = panic_server(build)
    /\ UNCHANGED <<cfg, adapter, req, node, clock, pin, pout>>

\* eth_getBalance: adapter.get_account_balance(to_aptos_address(&address))
LocalBalance(r) ==
    /\ server = "running"
    /\ adapter.kind = "Local"
    /\ rpc[r].pc = "idle"
    /\ req[r].pc = "idle"
    /\ \E address \in BalanceAddresses, block_number \in BlockIds, build \in Builds :
           /\ rpc' = [rpc EXCEPT ![r] =
                          handle_rpc(unimplemented(
                              [@ EXCEPT !.method = "eth_getBalance",
                                        !.params = Some([address |-> address,
                                                         block_number |-> block_number]),
                                        !.query = Some([op |-> "get_account_balance",
                                                        address |-> to_aptos_address(address)])]))]
           /\ server' = panic_server(build)
    /\ UNCHANGED <<cfg, adapter, req, node, clock, pin, pout>>

\* eth_sendRawTransaction at adapter.submit_transaction(sender, bytes)
LocalSubmitTransaction(r) ==
    /\ server = "running"
    /\ adapter.kind = "Local"
    /\ req[r].pc = "get_account"
    /\ \E build \in Builds :
           /\ req' = [req EXCEPT ![r] = handle_rpc(handler_panic(@))]
           /\ server' = panic_server(build)
    /\ UNCHANGED <<cfg, adapter, node, clock, rpc, pin, pout>>

InitLocal ==
    /\ cfg \in {ConfigLocal, [ConfigLocal EXCEPT !.coin_type = Some(CustomCoinType)]}
    /\ adapter = build_adapter(cfg)
    /\ server = "running"
    /\ req = [r \in Requests |-> IdleRequest]
    /\ node = [seq |-> [a \in SenderAccounts |-> 0], accepted |-> {}]
    /\ clock = 0
    /\ rpc = [r \in Requests |-> IdleCall]
    /\ pin = NONE
    /\ pout = NONE

NextLocal ==
    \E r \in Requests :
        \/ SendRawTransaction(r)
        \/ LocalSubmitTransaction(r)
        \/ LocalChainId(r)
        \/ LocalBalance(r)

SpecLocal == InitLocal /\ [][NextLocal]_vars

(***************************************************************************)
(* Claims on the functions.                                                *)
(***************************************************************************)
\* C3: for every 20-byte Ethereum address e, to_aptos_address(e) is 32 bytes
\* long, its bytes [0..12] are zero and its bytes [12..32] are e; no other
\* address maps to the same result.
C3_ToAptosAddressPadsLeft ==
    (pin.fn = "to_aptos_address" /\ pout.some) =>
        /\ Len(pin.arg) = 20
        /\ Len(pout.val) = 32
        /\ \A i \in 1 .. 12 : pout.val[i] = 0
        /\ \A i \in 13 .. 32 : pout.val[i] = pin.arg[i - 12]
        /\ \A e \in EthAddresses : to_aptos_address(e) = pout.val => e = pin.arg

C3_Witness ==
    /\ pin.fn = "to_aptos_address"
    /\ pin.arg = S1Address
    /\ pout.some
    /\ pout.val = <<0, 0, 0, 0, 0, 0, 0, 0, 0, 0, 0, 0>> \o S1Address

\* C5: recover_raw_transaction yields EmptyRawTransactionData on empty input;
\* otherwise FailedToDecodeSignedTransaction when the EIP-2718 decode fails;
\* otherwise InvalidTransactionSignature when secp256k1 recovery fails or s
\* exceeds secp256k1n/2; and only otherwise the decoded transaction with the
\* recovered signer.
C5_RecoverFailureOrder ==
    (pin.fn = "recover_raw_transaction" /\ pout.some) =>
        LET data == pin.arg
            decoded == decode_2718(data)
            sig == decoded.val.signature
            raw == imp_recover_signer_unchecked(sig, signature_hash(decoded.val))
        IN  IF data = <<>> THEN pout.val = Err("EmptyRawTransactionData")
            ELSE IF ~decoded.ok THEN pout.val = Err("FailedToDecodeSignedTransaction")
            ELSE IF ~raw.ok \/ sig.s > SECP256K1N_HALF
            THEN pout.val = Err("InvalidTransactionSignature")
            ELSE pout.val = Ok([tx |-> decoded.val, signer |-> raw.val])

\* a decodable transaction whose signature has a high s was classified
C5_Witness ==
    /\ pin.fn = "recover_raw_transaction"
    /\ pout.some
    /\ decode_2718(pin.arg).ok
    /\ decode_2718(pin.arg).val.signature.s > SECP256K1N_HALF
    /\ imp_recover_signer_unchecked(decode_2718(pin.arg).val.signature,
                                    signature_hash(decode_2718(pin.arg).val)).ok
    /\ pout.val = Err("InvalidTransactionSignature")

\* C6: the strict recover_signer fails whenever s > secp256k1n/2; on the same
\* inputs recover_signer_unchecked answers as it does for the low-s form of
\* the signature, so it does not reject because of s; for s <= secp256k1n/2
\* both return the same result.
C6_StrictRejectsHighS ==
    (pin.fn = "recover_signer" /\ pout.some) =>
        LET sig == pin.arg[1]
            hash == pin.arg[2]
        IN  /\ sig.s > SECP256K1N_HALF => ~pout.val.strict.ok
            /\ (sig.s > SECP256K1N_HALF /\ sig.s < SECP256K1N) =>
                   pout.val.unchecked = imp_recover_signer_unchecked(Malleate(sig), hash)
                   \/ (~pout.val.unchecked.ok
                       /\ ~imp_recover_signer_unchecked(Malleate(sig), hash).ok)
            /\ sig.s <= SECP256K1N_HALF => pout.val.strict = pout.val.unchecked

\* a high-s signature that the unchecked path accepts and the strict one rejects
C6_Witness ==
    /\ pin.fn = "recover_signer"
    /\ pout.some
    /\ pin.arg[1].s > SECP256K1N_HALF
    /\ pout.val.unchecked.ok
    /\ ~pout.val.strict.ok

\* C27: the decoder dispatches on the first byte's type tag: tags 1, 2, 3 and
\* 4 decode as EIP-2930, EIP-1559, EIP-4844 and EIP-7702, tag 0 and every
\* unknown tag are rejected as typed envelopes, a legacy transaction is
\* accepted only through the RLP-list fallback, and the decoded variant's type
\* tag equals the tag it was dispatched on.
C27_DispatchOnTypeTag ==
    (pin.fn = "decode_2718" /\ pout.some /\ pin.arg /= <<>>) =>
        LET tag == Head(pin.arg)
            out == pout.val
            variant == [b \in 1 .. 4 |->
                           <<"Eip2930", "Eip1559", "Eip4844", "Eip7702">>[b]]
        IN  /\ (tag \in 1 .. 4 /\ out.ok) => out.val.type = variant[tag]
            /\ (tag \in 1 .. 4
                    /\ \E tx \in EnvelopeTransactions :
                           /\ tx.type /= "Legacy"
                           /\ tx.signature.r < SECP256K1N
                           /\ Tail(pin.arg) = rlp_encode_signed(tx))
                   => out.ok
            /\ (tag = 0 \/ tag \in 5 .. 127) => out = Err("UnexpectedType")
            /\ (out.ok /\ out.val.type = "Legacy") => tag >= 192
            /\ (out.ok /\ tag <= 127) => ty(out.val.type) = tag
            /\ (out.ok /\ tag > 127) => ty(out.val.type) = 0

\* the signed list of an EIP-1559 transaction was decoded behind tag 4
C27_Witness ==
    /\ pin.fn = "decode_2718"
    /\ pout.some
    /\ pin.arg = <<4>> \o rlp_encode_signed([type |-> "Eip1559", nonce |-> 1,
                                              signature |-> [r |-> 1, s |-> 1, v |-> TRUE]])
    /\ pout.val.ok
    /\ pout.val.val.type = "Eip7702"

\* C24 as stated: decoding and recovering the encoding of a validly signed
\* transaction returns the address of the signing key, and the same bytes
\* with any single byte mutated are rejected.
C24_MutationRejected ==
    (pin.fn = "decode_and_recover" /\ pout.some) =>
        IF pin.arg.position = 0
        THEN pout.val.ok /\ pout.val.val.signer = public_key_to_address(pin.arg.d)
        ELSE ~pout.val.ok

\* C24 as amended: decoding and recovering the encoding of a validly signed
\* transaction t returns t with the address of the signing key; the same bytes
\* with one byte mutated are rejected or decode to a transaction other than
\* t, with another hash, and are never accepted as t.
C24_MutationNeverOriginal ==
    (pin.fn = "decode_and_recover" /\ pout.some) =>
        LET t == SignTransaction(pin.arg.type, pin.arg.nonce, pin.arg.d, pin.arg.k)
        IN  IF pin.arg.position = 0
            THEN /\ pout.val.ok
                 /\ pout.val.val.tx = t
                 /\ pout.val.val.signer = public_key_to_address(pin.arg.d)
            ELSE pout.val.ok =>
                     /\ pout.val.val.tx /= t
                     /\ tx_hash(pout.val.val.tx) /= tx_hash(t)

\* a mutated encoding was accepted, as another transaction of another signer
C24_Witness ==
    /\ pin.fn = "decode_and_recover"
    /\ pout.some
    /\ pin.arg.position > 0
    /\ pout.val.ok
    /\ pout.val.val.signer /= public_key_to_address(pin.arg.d)

C28_BlockByHeightQuery ==
    (pin.fn = "get_block_by_height" /\ pout.some) =>
        /\ pout.val.method = "GET"
        /\ pout.val.path
               = <<pin.arg.self.endpoint, "blocks", "by_height", pin.arg.block_height>>
        /\ pout.val.query
               = <<[name |-> "with_transactions", value |-> pin.arg.with_transactions]>>

\* C30: cors_layer maps an absent value or an empty list to a layer that adds
\* no CORS headers; exactly one origin equal to "*" or "all" (a single string
\* or a one-element list) to the permissive layer; every other list to an
\* exact-match allow-origin list of exactly the configured origins, and it
\* fails with an error if any origin is not a valid header value.
C30_CorsLayerMapping ==
    (pin.fn = "cors_layer" /\ pout.some) =>
        LET configured == IF ~pin.arg.some THEN <<>>
                          ELSE IF pin.arg.val \in {Item(o) : o \in Origins}
                          THEN <<pin.arg.val.item>>
                          ELSE pin.arg.val.list
            valid(o) == \A i \in 1 .. Len(o) : o[i] \notin (0 .. 8) \cup (10 .. 31) \cup {127}
            out == pout.val
        IN  IF configured = <<>>
            THEN out = Ok([allow_origin |-> "unset", origins |-> <<>>])
            ELSE IF configured \in {<<WILDCARD>>, <<ALL>>}
            THEN out = Ok([allow_origin |-> "any", origins |-> <<>>])
            ELSE IF \E i \in 1 .. Len(configured) : ~valid(configured[i])
            THEN ~out.ok /\ "err" \in DOMAIN out
            ELSE out = Ok([allow_origin |-> "list", origins |-> configured])

\* sanity of the scaled group: a signature made with key d recovers d's address
SignThenRecover ==
    \A d \in Keys, k \in Keys, h \in Scalars :
        LET sig == sign_message(d, k, h)
        IN  sig.s /= 0 =>
              recover_signer_unchecked(sig, h) = Ok(public_key_to_address(d))

(***************************************************************************)
(* Claims on eth_sendRawTransaction.                                       *)
(***************************************************************************)
Done(r) == req[r].pc = "done"
Succeeded(r) == Done(r) /\ req[r].result.val.ok
Failed(r) == Done(r) /\ ~req[r].result.val.ok
Count(calls, op) == Cardinality({i \in DOMAIN calls : calls[i] = op})

\* C1: every eth_sendRawTransaction that succeeds returns keccak256 of the
\* exact input bytes, bytes the decoder did not consume included, and never
\* the hash of the PendingTransaction.
C1_HashOfInputBytes ==
    \A r \in Requests :
        Succeeded(r) =>
            /\ req[r].result.val.val = keccak256(req[r].bytes)
            /\ req[r].result.val.val /= req[r].pending.val.val.hash

\* C2: a request that succeeds has issued exactly one get_account and then
\* exactly one submit_transaction; after a failed get_account no
\* submit_transaction is issued.
C2_GetAccountThenSubmit ==
    \A r \in Requests :
        /\ Succeeded(r) => req[r].calls = <<"get_account", "submit_transaction">>
        /\ (Count(req[r].calls, "get_account") > 0 /\ ~req[r].account.some) =>
               /\ Count(req[r].calls, "submit_transaction") = 0
               /\ Failed(r)

\* one request succeeded and another one failed at get_account
C2_Witness ==
    \E r1, r2 \in Requests :
        /\ Succeeded(r1)
        /\ req[r1].calls = <<"get_account", "submit_transaction">>
        /\ Failed(r2)
        /\ req[r2].calls = <<"get_account">>

\* C4: when decoding or signer recovery fails on the input, the request ends
\* with a JSON-RPC error and no engine-adapter operation is issued for it.
C4_BadInputNoAdapterCall ==
    \A r \in Requests :
        (req[r].pc /= "idle"
         /\ (req[r].bytes = <<>>
             \/ ~decode_2718(req[r].bytes).ok
             \/ ~tx_recover_signer(decode_2718(req[r].bytes).val).ok)) =>
            /\ Failed(r)
            /\ req[r].calls = <<>>
            /\ ~req[r].submitted.some

\* scenario S2: the empty input was answered with the empty-data error, and a
\* high-s transaction with the signature error
C4_Witness ==
    \E r1, r2 \in Requests :
        /\ Failed(r1)
        /\ req[r1].bytes = <<>>
        /\ req[r1].result.val.err.message = "empty transaction data"
        /\ Failed(r2)
        /\ decode_2718(req[r2].bytes).ok
        /\ req[r2].result.val.err.message = "invalid transaction signature"
        /\ req[r1].calls = <<>> /\ req[r2].calls = <<>>

\* C7: within one request each adapter operation is issued at most once,
\* nothing follows a failed operation, and a failure at any stage ends the
\* request with a JSON-RPC error of code -32603.
C7_LinearNoRetry ==
    \A r \in Requests :
        /\ Count(req[r].calls, "get_account") <= 1
        /\ Count(req[r].calls, "submit_transaction") <= 1
        /\ (req[r].pending.some /\ ~req[r].pending.val.ok) => Failed(r)
        /\ Failed(r) => req[r].result.val.err.code = -32603

\* a request failed at each of the stages: recover, account fetch, submit
C7_Witness ==
    \E r1, r2 \in Requests :
        /\ Failed(r1)
        /\ req[r1].calls = <<"get_account", "submit_transaction">>
        /\ req[r1].result.val.err = [code |-> -32603,
                                     message |-> "Failed to submit transaction"]
        /\ Failed(r2)
        /\ req[r2].calls = <<"get_account">>
        /\ req[r2].result.val.err.code = -32603

\* C25: eth_sendRawTransaction returns a transaction hash only if the
\* adapter's submit_transaction for that request returned Ok; a request whose
\* submit_transaction returned an error or was never called returns a
\* JSON-RPC error and no hash.
C25_HashOnlyAfterSubmitOk ==
    \A r \in Requests :
        LET submit_ok == req[r].pending.some /\ req[r].pending.val.ok
        IN  /\ Succeeded(r) =>
                   /\ submit_ok
                   /\ Count(req[r].calls, "submit_transaction") = 1
                   /\ req[r].upstream.val = PendingResponse(req[r].submitted.val)
            /\ (Done(r) /\ ~submit_ok) =>
                   /\ Failed(r)
                   /\ req[r].result.val.err.code \in {-32603, -32602, -32000}
                   /\ "val" \notin DOMAIN req[r].result.val
            /\ ~Done(r) => ~req[r].result.some

\* one request got its hash after the node took the transaction and one,
\* refused by the node, got an error
C25_Witness ==
    \E r1, r2 \in Requests :
        /\ Succeeded(r1)
        /\ req[r1].pending.val.ok
        /\ Failed(r2)
        /\ req[r2].pending.some
        /\ ~req[r2].pending.val.ok
        /\ req[r2].calls = <<"get_account", "submit_transaction">>

\* C23: after any sequence and interleaving of requests the shared adapter's
\* attributes (coin_type, auth_func, entry_func, endpoint, chain id, timeout)
\* and the loaded configuration are as at startup, and no request's data
\* reaches another request: a step writes the record of one request only.
C23_SharedStateReadOnly ==
    [][/\ cfg' = cfg
       /\ adapter = build_adapter(cfg)
       /\ adapter' = adapter
       /\ \A a \in {"coin_type", "auth_func", "entry_func", "endpoint", "chain_id", "timeout"} :
              adapter'[a] = build_adapter(cfg)[a]
       /\ \A r1, r2 \in Requests :
              (r1 /= r2 /\ req'[r1] /= req[r1]) => req'[r2] = req[r2]]_vars

\* two requests of different senders ran interleaved to their ends under a
\* configuration that sets both functions
C23_Witness ==
    \E r1, r2 \in Requests :
        /\ cfg = ConfigBothFuncs
        /\ adapter = build_adapter(ConfigBothFuncs)
        /\ Succeeded(r1)
        /\ Done(r2)
        /\ req[r2].calls = <<"get_account", "submit_transaction">>
        /\ req[r1].sender /= req[r2].sender

\* C22: a panic raised inside an RPC handler is caught at the HTTP layer and
\* answered with HTTP status 500 for that request; other in-flight and later
\* requests are unaffected (the process keeps serving).
C22_PanicAnsweredWith500 ==
    \A r \in Requests :
        /\ req[r].pc = "panicked" => (req[r].http = Some(500) /\ server = "running")
        /\ rpc[r].pc = "panicked" => (rpc[r].http = Some(500) /\ server = "running")

SameSequence(r1, r2) ==
    /\ r1 /= r2
    /\ req[r1].submitted.some
    /\ req[r2].submitted.some
    /\ req[r1].submitted.val.raw_txn.sender = req[r2].submitted.val.raw_txn.sender
    /\ req[r1].submitted.val.raw_txn.sequence_number
           = req[r2].submitted.val.raw_txn.sequence_number

\* C8: when two requests of the same sender have both submitted a
\* transaction with the same sequence number, the node has accepted at most
\* one of them and the other request ended with a JSON-RPC error.
C8_SameSequenceOneRejected ==
    \A r1, r2 \in Requests :
        SameSequence(r1, r2) =>
            /\ ~(req[r1].pending.val.ok /\ req[r2].pending.val.ok)
            /\ Failed(r1) \/ Failed(r2)

\* the race: two requests with different bytes of one sender carried the same
\* sequence number, one was accepted
C8_Witness ==
    \E r1, r2 \in Requests :
        /\ SameSequence(r1, r2)
        /\ req[r1].bytes /= req[r2].bytes
        /\ Succeeded(r1)
        /\ Failed(r2)
        /\ req[r1].submitted.val \in node.accepted
        /\ req[r2].submitted.val \notin node.accepted

\* C9: the submitted Aptos transaction has sender = to_aptos_address(signer
\* recovered from the raw bytes) and the sequence number get_account returned
\* for that sender in the same request.
C9_SenderAndSequenceNumber ==
    \A r \in Requests :
        req[r].submitted.some =>
            LET tx == decode_2718(req[r].bytes).val
                signer == imp_recover_signer_unchecked(tx.signature, signature_hash(tx)).val
                raw == req[r].submitted.val.raw_txn
            IN  /\ Len(raw.sender) = 32
                /\ SubSeq(raw.sender, 13, 32) = signer
                /\ \A i \in 1 .. 12 : raw.sender[i] = 0
                /\ req[r].account.some
                /\ raw.sequence_number = req[r].account.val.sequence_number

\* scenario S5: get_account returned a non-zero sequence number and it was
\* submitted
C9_Witness ==
    \E r \in Requests :
        /\ req[r].submitted.some
        /\ req[r].account.val.sequence_number = MaxSeq
        /\ req[r].submitted.val.raw_txn.sequence_number = MaxSeq
        /\ req[r].submitted.val.raw_txn.sender
               = to_aptos_address(public_key_to_address(2))

\* engine.basic.entry_func as configured, with its documented default
ConfiguredEntryFunc == unwrap_or(cfg.entry_func, DefaultEntryFunc)

\* C10: every transaction built has an EntryFunction payload whose module and
\* member are the parse of the configured entry_func, no type arguments, and
\* exactly the arguments bcs(sender), bcs(raw bytes as received).
C10_EntryFunctionPayload ==
    \A r \in Requests :
        req[r].submitted.some =>
            LET payload == req[r].submitted.val.raw_txn.payload
            IN  /\ payload.type = "EntryFunction"
                /\ payload.entry.module = [address |-> ConfiguredEntryFunc[1],
                                           name |-> ConfiguredEntryFunc[2]]
                /\ payload.entry.function = ConfiguredEntryFunc[3]
                /\ payload.entry.ty_args = <<>>
                /\ payload.entry.args
                       = <<req[r].sender.val, <<Len(req[r].bytes)>> \o req[r].bytes>>

\* engine.basic.auth_func as configured, with its documented default
ConfiguredAuthFunc == unwrap_or(cfg.auth_func, DefaultAuthFunc)

\* C11: every transaction built carries the authenticator
\* SingleSender(Abstraction{function_info, auth_data}) with function_info the
\* parse of the configured auth_func and auth_data the V1 variant with empty
\* signing_message_digest and empty authenticator.
C11_AbstractionAuthenticator ==
    \A r \in Requests :
        req[r].submitted.some =>
            LET auth == req[r].submitted.val.authenticator
            IN  /\ auth.type = "SingleSender"
                /\ auth.sender.type = "Abstraction"
                /\ auth.sender.function_info
                       = [module_address |-> ConfiguredAuthFunc[1],
                          module_name |-> ConfiguredAuthFunc[2],
                          function_name |-> ConfiguredAuthFunc[3]]
                /\ auth.sender.auth_data
                       = [variant |-> "V1",
                          signing_message_digest |-> <<>>,
                          authenticator |-> <<>>]

\* a transaction was submitted under a configured, non-default auth_func
C11_Witness ==
    \E r \in Requests :
        /\ cfg.auth_func = Some(CustomAuthFunc)
        /\ req[r].submitted.some
        /\ req[r].submitted.val.authenticator.sender.function_info.function_name
               = "verify"

\* C12: the adapter's entry_func attribute is the configured
\* engine.basic.entry_func or its default 0x100::evm::transact, whatever
\* auth_func is, and its auth_func attribute the configured auth_func or
\* 0x100::evm::authenticate.
C12_AdapterFuncsAsConfigured ==
    /\ adapter.entry_func = ConfiguredEntryFunc
    /\ adapter.auth_func = ConfiguredAuthFunc

C14_ExpirationIsExactSum ==
    \A r \in Requests :
        Count(req[r].calls, "submit_transaction") > 0 =>
            /\ req[r].pc /= "panicked"
            /\ req[r].submitted.some
            /\ req[r].submitted.val.raw_txn.expiration_timestamp_secs
                   = req[r].now.val + config_timeout(cfg)

\* the request ended because the node answered an operation with a non-2xx
UpstreamFailed(r) ==
    /\ Done(r)
    /\ req[r].upstream.some
    /\ ~is_success(req[r].upstream.val.status)

\* the fixed message of the operation that failed last
GenericMessage(calls) ==
    IF calls[Len(calls)] = "get_account" THEN "Failed to get account data"
    ELSE "Failed to submit transaction"

\* C18: the JSON-RPC error after an upstream failure does not depend on the
\* response body: two requests that failed at the same operation carry the
\* same error, whatever the bodies of the non-2xx responses were, and it is
\* code -32603 with the operation's fixed message.
C18_ErrorIndependentOfBody ==
    \A r1, r2 \in Requests :
        (UpstreamFailed(r1) /\ UpstreamFailed(r2) /\ req[r1].calls = req[r2].calls) =>
            /\ Failed(r1) /\ Failed(r2)
            /\ req[r1].result.val.err = req[r2].result.val.err
            /\ req[r1].result.val.err
                   = [code |-> -32603, message |-> GenericMessage(req[r1].calls)]

\* two requests with the same bytes were refused by the node with the same
\* status and different bodies
C18_Witness ==
    \E r1, r2 \in Requests :
        /\ UpstreamFailed(r1) /\ UpstreamFailed(r2)
        /\ req[r1].bytes = req[r2].bytes
        /\ req[r1].calls = <<"get_account", "submit_transaction">>
        /\ req[r2].calls = <<"get_account", "submit_transaction">>
        /\ req[r1].upstream.val.status = req[r2].upstream.val.status
        /\ req[r1].upstream.val.body /= req[r2].upstream.val.body
        /\ req[r1].result.val.err = req[r2].result.val.err

\* the request ended at recover_raw_transaction
InputError(r) == Done(r) /\ ~recover_raw_transaction(req[r].bytes).ok

\* C19: an input error of eth_sendRawTransaction (empty bytes, bad RLP, an
\* invalid or high-s signature) is reported as a JSON-RPC error with code
\* -32602 or a code outside the range JSON-RPC reserves, and nothing is
\* issued again for the request.
C19_InputErrorCode ==
    \A r \in Requests :
        InputError(r) =>
            /\ Failed(r)
            /\ req[r].calls = <<>>
            /\ \/ req[r].result.val.err.code = -32602
               \/ req[r].result.val.err.code < -32768
               \/ req[r].result.val.err.code > -32000

(***************************************************************************)
(* Claims on the other methods.                                            *)
(***************************************************************************)
Answered(r, method) == rpc[r].method = method /\ rpc[r].pc = "done"

\* C15: for every chain_id in the LedgerInfo the adapter returned,
\* eth_chainId returns that value as a 64-bit quantity, unchanged (4 gives
\* 0x4); when get_ledger_info fails it returns a JSON-RPC internal error and
\* no value.
C15_ChainIdWidened ==
    \A r \in Requests :
        Answered(r, "eth_chainId") =>
            IF is_success(rpc[r].upstream.val.status)
            THEN /\ rpc[r].result.val = Ok(Some(<<rpc[r].upstream.val.json.val.chain_id>>))
                 /\ Quantity(rpc[r].result.val.val.val)
                        = HexDigits(rpc[r].upstream.val.json.val.chain_id)
            ELSE /\ ~rpc[r].result.val.ok
                 /\ rpc[r].result.val.err.code = -32603

\* scenario S3, chain id 4 answered as 0x4; the largest u8 answered as 0xff;
\* a failed get_ledger_info
C15_Witness ==
    \E r1, r2 \in Requests :
        /\ Answered(r1, "eth_chainId")
        /\ rpc[r1].upstream.val.status = 200
        /\ rpc[r1].upstream.val.json.val.chain_id \in {4, 255}
        /\ Quantity(rpc[r1].result.val.val.val) \in {<<4>>, <<15, 15>>}
        /\ Answered(r2, "eth_chainId")
        /\ rpc[r2].upstream.val.status = 500
        /\ rpc[r2].result.val = Err([code |-> -32603,
                                     message |-> "Failed to get ledger info"])

\* C16: eth_blockNumber consults the adapter and returns the LedgerInfo's
\* block_height, unchanged.
C16_BlockNumberForwarded ==
    \A r \in Requests :
        (rpc[r].method = "eth_blockNumber" /\ rpc[r].pc /= "idle") =>
            /\ rpc[r].pc = "done"
            /\ rpc[r].query = Some([op |-> "get_ledger_info"])
            /\ rpc[r].upstream.some
            /\ rpc[r].result.some
            /\ rpc[r].result.val = Ok(<<rpc[r].upstream.val.json.val.block_height, 0, 0, 0>>)

\* engine.basic.coin_type as configured, with its documented default
ConfiguredCoinType == unwrap_or(cfg.coin_type, DefaultCoinType)

\* C17: eth_getBalance(e, block) asks get_account_balance for
\* to_aptos_address(e) with the configured coin type and returns the u64
\* answer as a U256 of the same value; two calls for the same address that
\* got the same answer differ in nothing but the block parameter.
C17_BalanceForwarded ==
    /\ \A r \in Requests :
           Answered(r, "eth_getBalance") =>
               /\ rpc[r].query
                      = Some([op |-> "get_account_balance",
                              address |-> <<0, 0, 0, 0, 0, 0, 0, 0, 0, 0, 0, 0>>
                                              \o rpc[r].params.val.address,
                              coin_type |-> ConfiguredCoinType])
               /\ is_success(rpc[r].upstream.val.status) =>
                      /\ rpc[r].result.val = Ok(<<rpc[r].upstream.val.json.val, 0, 0, 0>>)
                      /\ Quantity(rpc[r].result.val.val)
                             = HexDigits(rpc[r].upstream.val.json.val)
    /\ \A r1, r2 \in Requests :
           (/\ Answered(r1, "eth_getBalance")
            /\ Answered(r2, "eth_getBalance")
            /\ rpc[r1].params.val.address = rpc[r2].params.val.address
            /\ rpc[r1].upstream = rpc[r2].upstream) =>
               /\ rpc[r1].query = rpc[r2].query
               /\ rpc[r1].result = rpc[r2].result

\* scenario S4: the balance 42 of the S1 address at "latest" was answered as
\* 0x2a, and the same at a block number, under a configured coin type
C17_Witness ==
    \E r1, r2 \in Requests :
        /\ Answered(r1, "eth_getBalance")
        /\ Answered(r2, "eth_getBalance")
        /\ cfg.coin_type = Some(CustomCoinType)
        /\ rpc[r1].params.val = [address |-> S1Address, block_number |-> Some([kind |-> "tag", value |-> "latest"])]
        /\ rpc[r2].params.val = [address |-> S1Address,
                                 block_number |-> Some([kind |-> "number", value |-> "0x1"])]
        /\ rpc[r1].upstream.val.json.val = 42
        /\ rpc[r2].upstream.val.json.val = 42
        /\ Quantity(rpc[r1].result.val.val) = <<2, 10>>
        /\ rpc[r1].result = rpc[r2].result

\* C20: a call of a method that is not implemented is answered with a
\* JSON-RPC internal error, and the process keeps running.
C20_UnimplementedIsInternalError ==
    \A r \in Requests :
        (rpc[r].method \in UnimplementedMethods /\ rpc[r].pc /= "idle") =>
            /\ rpc[r].pc = "done"
            /\ rpc[r].result.some
            /\ ~rpc[r].result.val.ok
            /\ rpc[r].result.val.err.code = -32603
            /\ server = "running"

(***************************************************************************)
(* Claims on the local adapter.                                            *)
(***************************************************************************)
\* C21: with the Local adapter every method that consults the adapter
\* (eth_chainId, eth_getBalance, eth_sendRawTransaction) completes with a
\* JSON-RPC internal error for that request, and the process does not crash.
C21_LocalAdapterInternalError ==
    adapter.kind = "Local" =>
        /\ server = "running"
        /\ \A r \in Requests :
               /\ req[r].pc /= "panicked"
               /\ rpc[r].pc /= "panicked"
               /\ (req[r].pc = "done" /\ req[r].recovered.some) =>
                      (~req[r].result.val.ok /\ req[r].result.val.err.code = -32603)
               /\ rpc[r].pc = "done" =>
                      (~rpc[r].result.val.ok /\ rpc[r].result.val.err.code = -32603)

(***************************************************************************)
(* Claims on the request timeout.                                          *)
(***************************************************************************)
\* C29: a request whose handling exceeds the request timeout is answered with
\* HTTP 408 (any other middleware error with HTTP 500), its task is dropped,
\* and after the deadline has fired no further engine-adapter call is started
\* or completed on behalf of that request.
C29_TimeoutAnswered408 ==
    [][/\ handle_error_layer("BoxError") = 500
       /\ \A r \in Requests :
              /\ (req[r].pc /= "timed_out" /\ req'[r].pc = "timed_out") =>
                     /\ req'[r].http = Some(408)
                     /\ req'[r].calls = req[r].calls
                     /\ req'[r].upstream = req[r].upstream
                     /\ ~req'[r].result.some
                     /\ node' = node
              /\ req[r].pc = "timed_out" => req'[r] = req[r]]_vars

\* a request timed out while its submit was awaited, and another request
\* was served to its end
C29_Witness ==
    \E r1, r2 \in Requests :
        /\ req[r1].pc = "timed_out"
        /\ req[r1].calls = <<"get_account">>
        /\ req[r1].http = Some(408)
        /\ ~req[r1].result.some
        /\ Succeeded(r2)
        /\ req[r2].http = Some(200)

====
